---- MODULE Spec2Model ----
(***************************************************************************)
(* Presubmit-job lifecycle manager of prow.                                *)
(*                                                                         *)
(*   Termination Engine: prowJobAborter.TerminateOlderPresubmitJobs        *)
(*                       (prow/pjutil/abort.go), one action per step of    *)
(*                       its scan loop.               Specification: Spec  *)
(*   Skip Resolver:      handle of the skip plugin, exercised by           *)
(*                       TestSkipStatus (prow/plugins/skip/skip_test.go).  *)
(*                                                Specification: SkipSpec  *)
(***************************************************************************)
EXTENDS Integers, Sequences, FiniteSets, TLC

\* ---------------------------------------------------------------- bounds
\* Longest job sequence handed to TerminateOlderPresubmitJobs.
MaxJobs == 3
\* Start times are drawn from 1..MaxStart.
MaxStart == 3

\* ------------------------------------------------------- prowapi constants
PresubmitJob == "presubmit"
PeriodicJob == "periodic"
TriggeredState == "triggered"
PendingState == "pending"
SuccessState == "success"
AbortedState == "aborted"

NoError == "nil"
PersistenceError == "replace failed"

\* ------------------------------------------------------------ job records
\* A prowapi.ProwJob, reduced to the fields the aborter reads or writes:
\*   name      ObjectMeta.Name            rv     ObjectMeta.ResourceVersion
\*   type      Spec.Type                  job    Spec.Job
\*   org, repo Spec.Refs.Org, .Repo       pulls  numbers of Spec.Refs.Pulls
\*   start     Status.StartTime           state  Status.State
\*   complete  Status.CompletionTime is set
JobNames == {"unit"}
Orgs == {"org"}
Repos == {"repo"}
\* The pull request under review, and another one of the same repository.
MainPulls == {<<1>>}
OtherPulls == {<<2>>}

\* Job records the scan considers: incomplete presubmits, in any prior state
\* for the pull request under review and pending for the other one.
ActiveShapes ==
    [type : {PresubmitJob}, job : JobNames, org : Orgs, repo : Repos,
     pulls : MainPulls, start : 1..MaxStart, complete : {FALSE},
     state : {TriggeredState, PendingState}]
    \cup
    [type : {PresubmitJob}, job : JobNames, org : Orgs, repo : Repos,
     pulls : OtherPulls, start : 1..MaxStart, complete : {FALSE},
     state : {PendingState}]

\* Job records the scan passes over: finished presubmits and other job kinds
\* of the pull request under review.
PassiveShapes ==
    [type : {PresubmitJob}, job : JobNames, org : Orgs, repo : Repos,
     pulls : MainPulls, start : {1}, complete : {TRUE},
     state : {SuccessState}]
    \cup
    [type : {PeriodicJob}, job : JobNames, org : Orgs, repo : Repos,
     pulls : MainPulls, start : {1}, complete : {FALSE},
     state : {PendingState}]

Shapes == ActiveShapes \cup PassiveShapes

\* The record of shape s stored under name n, as first read from the store.
MkJob(n, s) ==
    [name |-> n, rv |-> 1, type |-> s.type, job |-> s.job, org |-> s.org,
     repo |-> s.repo, pulls |-> s.pulls, start |-> s.start,
     complete |-> s.complete, state |-> s.state]

VARIABLES
    pjs,          \* the caller's slice, mutated in place
    input,        \* the slice as it was at the call (history)
    dupes,        \* map[jobIndentifier]int
    i,            \* index of the range loop (1-based)
    pc,           \* "loop" | "cleanup" | "replace" | "done"
    cancelIndex,  \* index selected for cancellation (0: none yet)
    toCancel,     \* local copy of pjs[cancelIndex]
    err,          \* value returned by the call
    calls,        \* collaborator calls in the order they were made (history)
    store,        \* persistence store: name -> stored record
    first         \* what a first call left when the caller calls again (history)

abortVars == <<pjs, input, dupes, i, pc, cancelIndex, toCancel, err, calls, store, first>>

\* ----------------------------------------------------- skip resolver state
VARIABLES
    presubmits,   \* []config.Presubmit: context -> definition
    event,        \* GenericCommentEvent
    statuses,     \* CreatedStatuses[sha]: context -> status, or absent
    existing,     \* statuses at the call (history)
    todo,         \* presubmit definitions not yet visited
    spc,          \* "start" | "scan" | "done"
    writes,       \* CreateStatus calls made (history)
    serr,         \* value returned by handle
    sfirst        \* what a first call left when the event comes again (history)

skipVars == <<presubmits, event, statuses, existing, todo, spc, writes, serr, sfirst>>

vars == <<abortVars, skipVars>>

\* =================================================== Termination Engine ==

\* pj.Complete()
Complete(pj) == pj.complete

\* the scan's filter without the test of the job kind
SkippedOnlyIfComplete(pj) == Complete(pj)

\* the scan's filter without the test of completion
SkippedOnlyIfNotPresubmit(pj) == pj.type # PresubmitJob

\* abort.go:59, the records the loop passes over
SkippedByScan(pj) == Complete(pj) \/ pj.type # PresubmitJob

\* the identifier without the repository
jobIndentifierWithoutRepository(pj) ==
    [job |-> pj.job, organization |-> pj.org, pullRequest |-> Head(pj.pulls)]

\* abort.go:63-68
jobIndentifier(pj) ==
    [job |-> pj.job, organization |-> pj.org, repository |-> pj.repo,
     pullRequest |-> Head(pj.pulls)]

\* Before with its operands exchanged
BeforeFlipped(t, u) == u < t

\* Before taken as "not later"
BeforeOrEqual(t, u) == t <= u

\* metav1.Time.Before: strictly earlier
Before(t, u) == t < u

\* the selection without the comparison of start times: the new sighting goes
SelectAlwaysCurrent(slots, prev, cur) == cur

\* abort.go:74-78, the index to cancel when slot cur repeats the key kept at prev
SelectCancelIndex(slots, prev, cur) ==
    IF Before(slots[prev].start, slots[cur].start) THEN prev ELSE cur

\* dupes[ji] = idx on first sight only: the retained index is never moved
SetDupeIfAbsent(d, ji, idx) ==
    [k \in DOMAIN d \cup {ji} |-> IF k \in DOMAIN d THEN d[k] ELSE idx]

\* abort.go:71 and :77, dupes[ji] = idx
SetDupe(d, ji, idx) ==
    [k \in DOMAIN d \cup {ji} |-> IF k = ji THEN idx ELSE d[k]]

\* the transition to aborted without SetComplete
MarkAbortedStateOnly(pj) == [pj EXCEPT !.state = AbortedState]

\* SetComplete without the transition to aborted
MarkCompleteOnly(pj) == [pj EXCEPT !.complete = TRUE]

\* abort.go:86-88, SetComplete and the transition to aborted on the local copy
MarkAborted(pj) == [pj EXCEPT !.complete = TRUE, !.state = AbortedState]

\* prowClient.ReplaceProwJob on success: the record as the store keeps it
StoredRecord(pj) == [pj EXCEPT !.rv = pj.rv + 1]

EmptyDupes == [k \in {} |-> 0]

NoJob == [name |-> 0]

\* No earlier call of the aborter, of the resolver
NoCall == [pjs |-> <<>>, ncalls |-> 0, err |-> "no call"]
NoHandle == [statuses |-> <<>>, writes |-> <<>>, serr |-> "no call"]

InitAbort ==
    /\ \E n \in 1..MaxJobs :
         \E s \in [1..n -> Shapes] :
            pjs = [k \in 1..n |-> MkJob(k, s[k])]
    /\ input = pjs
    /\ store = pjs
    /\ dupes = EmptyDupes
    /\ i = 1
    /\ pc = "loop"
    /\ cancelIndex = 0
    /\ toCancel = NoJob
    /\ err = NoError
    /\ calls = <<>>
    /\ first = NoCall

\* abort.go:59-61
ScanSkip ==
    /\ pc = "loop"
    /\ i <= Len(pjs)
    /\ SkippedByScan(pjs[i])
    /\ i' = i + 1
    /\ UNCHANGED <<pjs, input, dupes, pc, cancelIndex, toCancel, err, calls, store>>
    /\ UNCHANGED <<first, skipVars>>

\* abort.go:63-73
ScanFirstSight ==
    /\ pc = "loop"
    /\ i <= Len(pjs)
    /\ ~SkippedByScan(pjs[i])
    /\ jobIndentifier(pjs[i]) \notin DOMAIN dupes
    /\ dupes' = SetDupe(dupes, jobIndentifier(pjs[i]), i)
    /\ i' = i + 1
    /\ UNCHANGED <<pjs, input, pc, cancelIndex, toCancel, err, calls, store>>
    /\ UNCHANGED <<first, skipVars>>

\* abort.go:63-79
ScanDuplicate ==
    /\ pc = "loop"
    /\ i <= Len(pjs)
    /\ ~SkippedByScan(pjs[i])
    /\ jobIndentifier(pjs[i]) \in DOMAIN dupes
    /\ LET ji == jobIndentifier(pjs[i])
           prev == dupes[ji]
           c == SelectCancelIndex(pjs, prev, i)
       IN /\ cancelIndex' = c
          /\ dupes' = IF c = prev THEN SetDupe(dupes, ji, i) ELSE dupes
          /\ toCancel' = pjs[c]
    /\ pc' = "cleanup"
    /\ UNCHANGED <<pjs, input, i, err, calls, store>>
    /\ UNCHANGED <<first, skipVars>>

\* cleanup whose failure is returned to the caller
CleanupFatal ==
    /\ pc = "cleanup"
    /\ \E ok \in BOOLEAN :
         /\ calls' = Append(calls, [op |-> "cleanup", idx |-> cancelIndex,
                                    pj |-> toCancel, ok |-> ok])
         /\ IF ok
            THEN /\ toCancel' = MarkAborted(toCancel)
                 /\ pc' = "replace"
                 /\ err' = err
            ELSE /\ toCancel' = toCancel
                 /\ pc' = "done"
                 /\ err' = "cleanup failed"
    /\ UNCHANGED <<pjs, input, dupes, i, cancelIndex, store>>
    /\ UNCHANGED <<first, skipVars>>

\* cleanup and marking through a pointer to the slot instead of a copy
CleanupInPlace ==
    /\ pc = "cleanup"
    /\ \E ok \in BOOLEAN :
         calls' = Append(calls, [op |-> "cleanup", idx |-> cancelIndex,
                                 pj |-> toCancel, ok |-> ok])
    /\ toCancel' = MarkAborted(toCancel)
    /\ pjs' = [pjs EXCEPT ![cancelIndex] = MarkAborted(toCancel)]
    /\ pc' = "replace"
    /\ UNCHANGED <<input, dupes, i, cancelIndex, err, store>>
    /\ UNCHANGED <<first, skipVars>>

\* abort.go:81-91
Cleanup ==
    /\ pc = "cleanup"
    /\ \E ok \in BOOLEAN :
         calls' = Append(calls, [op |-> "cleanup", idx |-> cancelIndex,
                                 pj |-> toCancel, ok |-> ok])
    /\ toCancel' = MarkAborted(toCancel)
    /\ pc' = "replace"
    /\ UNCHANGED <<pjs, input, dupes, i, cancelIndex, err, store>>
    /\ UNCHANGED <<first, skipVars>>

\* a successful replace whose result is dropped: the slot gets the local copy
ReplaceOkKeepsLocalCopy ==
    /\ pc = "replace"
    /\ LET npj == StoredRecord(toCancel)
       IN /\ store' = [store EXCEPT ![toCancel.name] = npj]
          /\ calls' = Append(calls, [op |-> "replace", idx |-> cancelIndex,
                                     name |-> toCancel.name, pj |-> toCancel,
                                     ok |-> TRUE, ret |-> npj])
          /\ pjs' = [pjs EXCEPT ![cancelIndex] = toCancel]
    /\ i' = i + 1
    /\ pc' = "loop"
    /\ UNCHANGED <<input, dupes, cancelIndex, toCancel, err>>
    /\ UNCHANGED <<first, skipVars>>

\* abort.go:93-97, ReplaceProwJob succeeds
ReplaceOk ==
    /\ pc = "replace"
    /\ LET npj == StoredRecord(toCancel)
       IN /\ store' = [store EXCEPT ![toCancel.name] = npj]
          /\ calls' = Append(calls, [op |-> "replace", idx |-> cancelIndex,
                                     name |-> toCancel.name, pj |-> toCancel,
                                     ok |-> TRUE, ret |-> npj])
          /\ pjs' = [pjs EXCEPT ![cancelIndex] = npj]
    /\ i' = i + 1
    /\ pc' = "loop"
    /\ UNCHANGED <<input, dupes, cancelIndex, toCancel, err>>
    /\ UNCHANGED <<first, skipVars>>

\* a failed replace whose slot is assigned before the error is looked at
ReplaceErrAfterAssign ==
    /\ pc = "replace"
    /\ calls' = Append(calls, [op |-> "replace", idx |-> cancelIndex,
                               name |-> toCancel.name, pj |-> toCancel,
                               ok |-> FALSE])
    /\ pjs' = [pjs EXCEPT ![cancelIndex] = toCancel]
    /\ err' = PersistenceError
    /\ pc' = "done"
    /\ UNCHANGED <<input, dupes, i, cancelIndex, toCancel, store>>
    /\ UNCHANGED <<first, skipVars>>

\* a failed replace that is remembered while the scan goes on
ReplaceErrContinues ==
    /\ pc = "replace"
    /\ calls' = Append(calls, [op |-> "replace", idx |-> cancelIndex,
                               name |-> toCancel.name, pj |-> toCancel,
                               ok |-> FALSE])
    /\ err' = PersistenceError
    /\ i' = i + 1
    /\ pc' = IF i + 1 > Len(pjs) THEN "done" ELSE "loop"
    /\ UNCHANGED <<pjs, input, dupes, cancelIndex, toCancel, store>>
    /\ UNCHANGED <<first, skipVars>>

\* abort.go:93-96, ReplaceProwJob fails
ReplaceErr ==
    /\ pc = "replace"
    /\ calls' = Append(calls, [op |-> "replace", idx |-> cancelIndex,
                               name |-> toCancel.name, pj |-> toCancel,
                               ok |-> FALSE])
    /\ err' = PersistenceError
    /\ pc' = "done"
    /\ UNCHANGED <<pjs, input, dupes, i, cancelIndex, toCancel, store>>
    /\ UNCHANGED <<first, skipVars>>

\* abort.go:100
Return ==
    /\ pc = "loop"
    /\ i > Len(pjs)
    /\ err' = NoError
    /\ pc' = "done"
    /\ UNCHANGED <<pjs, input, dupes, i, cancelIndex, toCancel, calls, store>>
    /\ UNCHANGED <<first, skipVars>>

SkipIdle ==
    /\ presubmits = <<>>
    /\ event = <<>>
    /\ statuses = <<>>
    /\ existing = <<>>
    /\ todo = {}
    /\ spc = "done"
    /\ writes = <<>>
    /\ serr = NoError
    /\ sfirst = NoHandle

Init == InitAbort /\ SkipIdle

Next ==
    \/ ScanSkip
    \/ ScanFirstSight
    \/ ScanDuplicate
    \/ Cleanup
    \/ ReplaceOk
    \/ ReplaceErr
    \/ Return

Spec == Init /\ [][Next]_vars

\* ============================================ properties: Termination Engine

Slots == 1..Len(input)

\* An incomplete presubmit record
IsActive(pj) == ~pj.complete /\ pj.type = PresubmitJob

\* (job name, organization, repository, first pull-request number)
KeyOf(pj) == <<pj.job, pj.org, pj.repo, pj.pulls[1]>>

\* The incomplete presubmit records of the input that share the key of slot k
Group(k) == {o \in Slots : IsActive(input[o]) /\ KeyOf(input[o]) = KeyOf(input[k])}

\* Neither complete nor aborted
Live(pj) == ~pj.complete /\ pj.state # AbortedState

Cancelled(pj) == pj.complete /\ pj.state = AbortedState

CallsOf(op, k) == {n \in 1..Len(calls) : calls[n].op = op /\ calls[n].idx = k}

ReplaceCalls == {n \in 1..Len(calls) : calls[n].op = "replace"}

ReturnedNil == pc = "done" /\ err = NoError

ReturnedError == pc = "done" /\ err # NoError

\* C1: after a return without error, every identity key with an incomplete
\* presubmit in the input has exactly one record left neither complete nor
\* aborted, its start time is at least that of every other incomplete
\* presubmit with the key, and all the others are complete and aborted.
C1_DedupComplete ==
    ReturnedNil =>
        \A k \in Slots :
            IsActive(input[k]) =>
                \E r \in Group(k) :
                    /\ Live(pjs[r])
                    /\ \A o \in Group(k) :
                         /\ input[o].start <= pjs[r].start
                         /\ o # r => Cancelled(pjs[o])

\* A call returned nil on three incomplete presubmits of one key whose start
\* times are not all equal.
C1_Witness ==
    /\ ReturnedNil
    /\ \E k \in Slots :
         /\ IsActive(input[k])
         /\ Cardinality(Group(k)) >= 3
         /\ \E o \in Group(k) : input[o].start # input[k].start

\* C2 as stated: among the records of a key with equal maximum start time the
\* one at the later sequence position is left active.
C2_TieFavorsLater ==
    ReturnedNil =>
        \A k \in Slots :
            IsActive(input[k]) =>
                \A r \in Group(k) :
                    Live(pjs[r]) =>
                        \A o \in Group(k) :
                            input[o].start = input[r].start => o <= r

\* C2 amended: on a repeat sighting with a start time equal to that of the
\* retained candidate the newly seen record is the one cancelled and the
\* earlier-index candidate stays retained; among equal maximum start times the
\* record at the earliest sequence position is the one left active.
C2_TieFavorsEarlier ==
    /\ pc \in {"cleanup", "replace"} =>
         LET kept == dupes[jobIndentifier(input[i])]
         IN input[kept].start = input[cancelIndex].start =>
                cancelIndex = i /\ kept < i
    /\ ReturnedNil =>
         \A k \in Slots :
             IsActive(input[k]) =>
                 \A r \in Group(k) :
                     Live(pjs[r]) =>
                         \A o \in Group(k) :
                             input[o].start = input[r].start => r <= o

\* A call returned nil on a key whose maximum start time is shared by two
\* records.
C2_Witness ==
    /\ ReturnedNil
    /\ \E k \in Slots :
         /\ IsActive(input[k])
         /\ \E o \in Group(k) :
              /\ o # k
              /\ input[o].start = input[k].start
              /\ \A m \in Group(k) : input[m].start <= input[k].start

\* C3: after a return without error every cancelled job has had cleanup
\* invoked exactly once and replace invoked exactly once, and the retained job
\* of each key has had neither.
C3_ExactlyOnce ==
    ReturnedNil =>
        \A k \in Slots :
            IsActive(input[k]) =>
                /\ Cardinality(CallsOf("cleanup", k)) = (IF Live(pjs[k]) THEN 0 ELSE 1)
                /\ Cardinality(CallsOf("replace", k)) = (IF Live(pjs[k]) THEN 0 ELSE 1)

\* A call returned nil on a chain of three duplicates of one key with
\* increasing start times: the retained candidate changed twice.
C3_Witness ==
    /\ ReturnedNil
    /\ \E a, b, c \in Slots :
         /\ a < b /\ b < c
         /\ Group(a) = {a, b, c}
         /\ input[a].start < input[b].start
         /\ input[b].start < input[c].start
         /\ Cancelled(pjs[a]) /\ Cancelled(pjs[b])

\* C4: a record that is complete or not a presubmit is never passed to
\* cleanup or replace, never changed in its slot and never entered in the
\* duplicate map, and a job is cancelled only for another incomplete
\* presubmit of its key.
C4_NonInterference ==
    /\ \A k \in Slots :
         ~IsActive(input[k]) =>
             /\ pjs[k] = input[k]
             /\ \A n \in 1..Len(calls) : calls[n].idx # k
             /\ \A key \in DOMAIN dupes : dupes[key] # k
    /\ \A n \in 1..Len(calls) :
         /\ IsActive(input[calls[n].idx])
         /\ Group(calls[n].idx) # {calls[n].idx}

\* A call returned with a complete or non-presubmit record lying between two
\* incomplete presubmits of the same key, one of which was cancelled.
C4_Witness ==
    /\ pc = "done"
    /\ \E a, k, b \in Slots :
         /\ a < k /\ k < b
         /\ ~IsActive(input[k])
         /\ KeyOf(input[k]) = KeyOf(input[a])
         /\ b \in Group(a)
         /\ Len(calls) = 2

\* C5: when the k-th replace call fails the call returns that error, the
\* slots of the first k-1 cancelled jobs hold their persisted aborted records,
\* and the slot of the k-th candidate and every other slot equals its input.
C5_FailFast ==
    ReturnedError =>
        /\ err = PersistenceError
        /\ Len(calls) > 0
        /\ calls[Len(calls)].op = "replace"
        /\ ~calls[Len(calls)].ok
        /\ calls[Len(calls)].idx = cancelIndex
        /\ pjs[cancelIndex] = input[cancelIndex]
        /\ Live(pjs[cancelIndex])
        /\ store[input[cancelIndex].name] = input[cancelIndex]
        /\ \A n \in ReplaceCalls \ {Len(calls)} :
             /\ calls[n].ok
             /\ pjs[calls[n].idx] = store[calls[n].name]
             /\ Cancelled(pjs[calls[n].idx])
        /\ \A k \in Slots :
             (\A n \in ReplaceCalls \ {Len(calls)} : calls[n].idx # k) =>
                 pjs[k] = input[k]

\* The second cancellation of a call failed to persist.
C5_Witness ==
    /\ ReturnedError
    /\ Cardinality(ReplaceCalls) = 2

\* C6: a cleanup failure is never fatal: every cleanup call, failed or not,
\* is followed by the replace call of the same job, complete and aborted; the
\* call returns nil unless a replace call failed, and then the scan has
\* reached the end of the sequence.
C6_CleanupNonFatal ==
    /\ \A n \in 1..Len(calls) :
         calls[n].op = "cleanup" =>
             IF n < Len(calls)
             THEN /\ calls[n + 1].op = "replace"
                  /\ calls[n + 1].idx = calls[n].idx
                  /\ Cancelled(calls[n + 1].pj)
             ELSE /\ pc = "replace"
                  /\ Cancelled(toCancel)
    /\ pc = "done" =>
         (err = NoError <=> \A n \in ReplaceCalls : calls[n].ok)
    /\ ReturnedNil => i > Len(pjs)

\* A call returned nil although a cleanup failed, and the job whose cleanup
\* failed is aborted.
C6_Witness ==
    /\ ReturnedNil
    /\ \E n \in 1..Len(calls) :
         /\ calls[n].op = "cleanup"
         /\ ~calls[n].ok
         /\ Cancelled(pjs[calls[n].idx])

\* C7: the replace call of a job directly follows the cleanup call of that
\* job, which saw the record before it was marked; the record passed to
\* replace is complete and aborted, otherwise as it was, under the job's own
\* name.
C7_CleanupBeforeReplace ==
    \A n \in ReplaceCalls :
        /\ n > 1
        /\ calls[n - 1].op = "cleanup"
        /\ calls[n - 1].idx = calls[n].idx
        /\ calls[n - 1].pj = input[calls[n].idx]
        /\ calls[n].name = input[calls[n].idx].name
        /\ calls[n].pj.complete
        /\ calls[n].pj.state = AbortedState
        /\ calls[n].pj = [input[calls[n].idx] EXCEPT !.complete = TRUE,
                                                    !.state = AbortedState]

\* Two jobs with different prior states were persisted as aborted.
C7_Witness ==
    \E m, n \in ReplaceCalls :
        /\ calls[m].ok /\ calls[n].ok
        /\ input[calls[m].idx].state = TriggeredState
        /\ input[calls[n].idx].state = PendingState

\* C8: after a successful replace call the slot of the cancelled job, at its
\* index, holds the record the persistence collaborator returned.
C8_SlotHoldsPersisted ==
    /\ Len(pjs) = Len(input)
    /\ \A n \in ReplaceCalls :
         calls[n].ok =>
             /\ input[calls[n].idx].name = calls[n].name
             /\ pjs[calls[n].idx] = calls[n].ret
             /\ pjs[calls[n].idx] = store[calls[n].name]

\* A replace call succeeded and returned a record that differs from the
\* locally modified copy passed to it.
C8_Witness ==
    \E n \in ReplaceCalls :
        /\ calls[n].ok
        /\ calls[n].ret # calls[n].pj
        /\ pjs[calls[n].idx] = calls[n].ret

\* The slots whose replace call succeeded
Persisted == {calls[n].idx : n \in {m \in ReplaceCalls : calls[m].ok}}

\* C13: at every point of the call, and so at a return of either kind, the
\* sequence has its length and order, and every slot but those of the jobs
\* whose replace call succeeded equals its input value: the retained job of
\* each key and the jobs with a key of their own among them.
C13_Frame ==
    /\ Len(pjs) = Len(input)
    /\ \A k \in Slots : pjs[k].name = input[k].name
    /\ \A k \in Slots : k \notin Persisted => pjs[k] = input[k]
    /\ \A key \in DOMAIN dupes : pjs[dupes[key]] = input[dupes[key]]
    /\ \A k \in Slots :
         (IsActive(input[k]) /\ Group(k) = {k}) => pjs[k] = input[k]

\* The call returned an error after one cancellation was persisted: that slot
\* changed, the slot of the failed candidate and the retained one did not.
C13_Witness ==
    /\ ReturnedError
    /\ \E k \in Persisted : pjs[k] # input[k]
    /\ \E k \in Slots :
         /\ k \notin Persisted
         /\ k # cancelIndex
         /\ k \in Group(cancelIndex)
         /\ pjs[k] = input[k]

\* C14: with a persistence collaborator that returns the record it stored, no
\* step of the call reopens a slot: a complete slot stays complete, an aborted
\* slot stays aborted, and a slot changes only by becoming complete and
\* aborted.
C14_CompletionMonotonic ==
    [][\A k \in 1..Len(pjs) :
          /\ pjs[k].complete => pjs'[k].complete
          /\ pjs[k].state = AbortedState => pjs'[k].state = AbortedState
          /\ pjs'[k] # pjs[k] => Cancelled(pjs'[k])]_vars

\* The call returned with a slot that was complete at entry and a slot that
\* was cancelled during the scan, both complete.
C14_Witness ==
    /\ pc = "done"
    /\ \E k \in Persisted : ~input[k].complete /\ Cancelled(pjs[k])
    /\ \E k \in Slots : input[k].complete /\ pjs[k].complete

\* The slots the scan has been through
Scanned(o) == IF pc = "loop" THEN o < i ELSE o <= i

\* C15: at every step the duplicate map holds exactly the keys seen so far and
\* sends each to a scanned index whose slot still holds its input record, an
\* incomplete presubmit of that key with the maximum start time among the
\* same-key incomplete presubmits scanned so far; the index chosen for
\* cancellation is not the index retained, and no retained slot has been
\* replaced by a persisted record.
C15_ScanInvariant ==
    /\ \A o \in Slots :
         (Scanned(o) /\ IsActive(input[o])) =>
             \E key \in DOMAIN dupes : dupes[key] \in Group(o)
    /\ \A key \in DOMAIN dupes :
         LET r == dupes[key]
         IN /\ r \in Slots
            /\ r <= i
            /\ Scanned(r)
            /\ pjs[r] = input[r]
            /\ IsActive(input[r])
            /\ KeyOf(input[r]) = <<key.job, key.organization, key.repository,
                                   key.pullRequest>>
            /\ \A o \in Group(r) : Scanned(o) => input[o].start <= input[r].start
            /\ r \notin Persisted
    /\ pc \in {"cleanup", "replace"} =>
         /\ cancelIndex \in Slots
         /\ \A key \in DOMAIN dupes : dupes[key] # cancelIndex

\* The third sighting of a key moves the retained index a second time: the
\* first record is already persisted as aborted, the second is chosen for
\* cancellation and the map retains the third.
C15_Witness ==
    /\ pc = "replace"
    /\ i = 3
    /\ cancelIndex = 2
    /\ Persisted = {1}
    /\ \E key \in DOMAIN dupes : dupes[key] = 3

CleanupCalls == {n \in 1..Len(calls) : calls[n].op = "cleanup"}

\* C16: a failed replace call is the last call of the scan; at the error
\* return cleanup has been invoked for the job whose replace failed although
\* its slot is still incomplete and not aborted, and the cleanup invocations
\* are one more than the successful replace calls.
C16_CleanupAheadOfFailedReplace ==
    /\ \A n \in ReplaceCalls : ~calls[n].ok => (n = Len(calls) /\ pc = "done")
    /\ ReturnedError =>
         LET last == Len(calls)
         IN /\ last >= 2
            /\ calls[last].op = "replace"
            /\ ~calls[last].ok
            /\ calls[last - 1].op = "cleanup"
            /\ calls[last - 1].idx = calls[last].idx
            /\ Live(pjs[calls[last].idx])
            /\ Cardinality(CleanupCalls) = Cardinality(Persisted) + 1
            /\ Cardinality(CleanupCalls) =
                   Cardinality({n \in ReplaceCalls : calls[n].ok}) + 1

\* The call returned an error on its second cancellation, before the end of
\* the sequence: two cleanups, one persisted job.
C16_Witness ==
    /\ ReturnedError
    /\ Cardinality(CleanupCalls) = 2
    /\ Cardinality(Persisted) = 1
    /\ Live(pjs[cancelIndex])

\* ------------------------------------------------- the aborter called twice

\* the caller hands the sequence a first call left, after its return without
\* error, to the aborter once more
CallAgain ==
    /\ pc = "done"
    /\ err = NoError
    /\ first = NoCall
    /\ first' = [pjs |-> pjs, ncalls |-> Len(calls), err |-> err]
    /\ dupes' = EmptyDupes
    /\ i' = 1
    /\ pc' = "loop"
    /\ cancelIndex' = 0
    /\ toCancel' = NoJob
    /\ UNCHANGED <<pjs, input, err, calls, store>>
    /\ UNCHANGED skipVars

RepeatNext ==
    \/ ScanSkip
    \/ ScanFirstSight
    \/ ScanDuplicate
    \/ Cleanup
    \/ ReplaceOk
    \/ ReplaceErr
    \/ Return
    \/ CallAgain

RepeatSpec == Init /\ [][RepeatNext]_vars

\* C17: with a persistence collaborator that returns the record it stored, a
\* second call on the sequence a successful first call left invokes neither
\* cleanup nor replace, leaves the sequence as it was and returns nil.
C17_Idempotent ==
    first # NoCall =>
        /\ pjs = first.pjs
        /\ Len(calls) = first.ncalls
        /\ pc \in {"loop", "done"}
        /\ err = NoError

\* The second call returned on a sequence in which the first call had
\* cancelled two jobs.
C17_Witness ==
    /\ first # NoCall
    /\ pc = "done"
    /\ first.ncalls = 4
    /\ Cardinality(Persisted) = 2

\* ------------------------------------- the aborter on keys that nearly agree

\* Longest job sequence of KeySpec.
MaxKeyJobs == 3

\* A presubmit of the pull request under review, the records that differ from
\* it in one field of the identifier, and a batch record whose first pull
\* request is the one under review.
NearKeys ==
    {[job |-> "unit", org |-> "org", repo |-> "repo", pulls |-> <<1>>],
     [job |-> "lint", org |-> "org", repo |-> "repo", pulls |-> <<1>>],
     [job |-> "unit", org |-> "fork", repo |-> "repo", pulls |-> <<1>>],
     [job |-> "unit", org |-> "org", repo |-> "docs", pulls |-> <<1>>],
     [job |-> "unit", org |-> "org", repo |-> "repo", pulls |-> <<2>>],
     [job |-> "unit", org |-> "org", repo |-> "repo", pulls |-> <<1, 2>>]}

KeyShapes ==
    {[type |-> PresubmitJob, job |-> k.job, org |-> k.org, repo |-> k.repo,
      pulls |-> k.pulls, start |-> t, complete |-> FALSE,
      state |-> PendingState] : k \in NearKeys, t \in {1, 2}}
    \cup
    {[type |-> PresubmitJob, job |-> "unit", org |-> "org", repo |-> "repo",
      pulls |-> <<1>>, start |-> 1, complete |-> TRUE, state |-> SuccessState]}

InitKeys ==
    /\ \E n \in 1..MaxKeyJobs :
         \E s \in [1..n -> KeyShapes] :
            pjs = [k \in 1..n |-> MkJob(k, s[k])]
    /\ input = pjs
    /\ store = pjs
    /\ dupes = EmptyDupes
    /\ i = 1
    /\ pc = "loop"
    /\ cancelIndex = 0
    /\ toCancel = NoJob
    /\ err = NoError
    /\ calls = <<>>
    /\ first = NoCall

KeyInit == InitKeys /\ SkipIdle

KeySpec == KeyInit /\ [][Next]_vars

\* An incomplete presubmit record other than slot k with the job name,
\* organization, repository and first pull-request number of slot k, started
\* no earlier
Supersedes(o, k) ==
    /\ o # k
    /\ ~input[o].complete
    /\ input[o].type = PresubmitJob
    /\ input[o].job = input[k].job
    /\ input[o].org = input[k].org
    /\ input[o].repo = input[k].repo
    /\ input[o].pulls[1] = input[k].pulls[1]
    /\ input[o].start >= input[k].start

\* The number of identifier fields in which slots a and b differ
KeyDistance(a, b) ==
    Cardinality({f \in 1..4 : KeyOf(input[a])[f] # KeyOf(input[b])[f]})

\* C18: a job is selected for cancellation only if the sequence holds another
\* incomplete presubmit record with the same job name, organization,
\* repository and first pull-request number that started no earlier; a record
\* with no such neighbour is never handed to cleanup or replace and keeps its
\* slot.
C18_CancelledOnlyForSameKey ==
    /\ pc \in {"cleanup", "replace"} =>
         \E o \in Slots : Supersedes(o, cancelIndex)
    /\ \A n \in 1..Len(calls) :
         \E o \in Slots : Supersedes(o, calls[n].idx)
    /\ \A k \in Slots :
         (~\E o \in Slots : Supersedes(o, k)) => pjs[k] = input[k]

\* The call returned nil: a job was cancelled for a record of its key, and a
\* record that differs from it in one field of the key only is still active.
C18_Witness ==
    /\ ReturnedNil
    /\ \E a, b, c \in Slots :
         /\ Cancelled(pjs[a])
         /\ Supersedes(b, a)
         /\ IsActive(input[c])
         /\ KeyDistance(a, c) = 1
         /\ Live(pjs[c])

\* ======================================================== Skip Resolver ==

\* Number of presubmit definitions; the definition reporting under context c,
\* when it has a trigger, is re-run by "/test c".
MaxPresubmits == 2

StatusSuccess == "success"
StatusFailure == "failure"
StatusPending == "pending"
StatusError == "error"
HostWriteError == "status write failed"
HeadSHA == "shalala"
Absent == [state |-> "absent", description |-> ""]

AllContexts == <<"failed-tests", "pending-tests", "passing-tests", "untriggered-tests">>
ContextIds == {AllContexts[k] : k \in 1..MaxPresubmits}

\* A comment body is a sequence of lines, a line a sequence of words.
SkipLine == <<"/skip">>
TestLines == {<<"/test", c>> : c \in ContextIds}
    \cup {<<"/test", "all", AllContexts[1]>>}
Bodies ==
    {<<>>} \cup {<<l>> : l \in TestLines \cup {SkipLine}}
    \cup {<<SkipLine, l>> : l \in TestLines}

\* The events the dispatcher may deliver: every body on an open pull request's
\* new comment, and a "/skip" on an issue, a closed pull request, an edit.
Events ==
    [isPR : {TRUE}, issueState : {"open"}, action : {"created"}, body : Bodies]
    \cup {[isPR |-> FALSE, issueState |-> "open", action |-> "created", body |-> <<SkipLine>>],
          [isPR |-> TRUE, issueState |-> "closed", action |-> "created", body |-> <<SkipLine>>],
          [isPR |-> TRUE, issueState |-> "open", action |-> "edited", body |-> <<SkipLine>>]}

\* config.Presubmit: Optional, and whether a Trigger/RerunCommand is set
Definitions == [optional : BOOLEAN, hasTrigger : BOOLEAN]

PostedStatuses ==
    {Absent} \cup [state : {StatusSuccess, StatusFailure, StatusPending, StatusError},
                   description : {""}]

\* "(?m)^/skip" command recognition: some line is the skip command
SkipRequested(body) == \E k \in 1..Len(body) : body[k] = SkipLine

\* the trigger pattern without its "(?:.*? )?" group: the job must directly
\* follow /test
LineTriggersAdjacent(line, c) ==
    /\ Len(line) >= 2
    /\ line[1] = "/test"
    /\ line[2] = c

\* "(?m)^/test (?:.*? )?job(?: .*?)?$" for the job of context c: some line starts
\* with /test and names the job among the words that follow
LineTriggers(line, c) ==
    /\ Len(line) >= 2
    /\ line[1] = "/test"
    /\ \E k \in 2..Len(line) : line[k] = c

\* Presubmit.TriggerMatches: a definition without a trigger matches nothing
TriggerMatches(p, c, body) ==
    /\ p.hasTrigger
    /\ \E k \in 1..Len(body) : LineTriggers(body[k], c)

\* Precondition gating of the resolver
Qualifies(e) ==
    /\ e.isPR
    /\ e.issueState = "open"
    /\ e.action = "created"
    /\ SkipRequested(e.body)

\* eligibility that forgets the optional flag
EligibleAnyDefinition(p, st) ==
    /\ st # Absent
    /\ st.state \in {StatusFailure, StatusPending}

\* eligibility of failed contexts only
EligibleOnlyFailure(p, st) ==
    /\ p.optional
    /\ st # Absent
    /\ st.state = StatusFailure

\* eligibility of every posted optional context, a green one included
EligibleAnyPosted(p, st) ==
    /\ p.optional
    /\ st # Absent

\* Optional definitions are eligible only if their context exists in state
\* failure or pending
Eligible(p, st) ==
    /\ p.optional
    /\ st # Absent
    /\ st.state \in {StatusFailure, StatusPending}

\* The status written for a skipped context
SkippedStatus == [state |-> StatusSuccess, description |-> "Skipped"]

InitSkip ==
    /\ presubmits \in [ContextIds -> Definitions]
    /\ statuses \in [ContextIds -> PostedStatuses]
    /\ existing = statuses
    /\ event \in Events
    /\ todo = {}
    /\ spc = "start"
    /\ writes = <<>>
    /\ serr = NoError
    /\ sfirst = NoHandle

\* the event does not qualify: handle returns without a call
GateReject ==
    /\ spc = "start"
    /\ ~Qualifies(event)
    /\ spc' = "done"
    /\ UNCHANGED <<presubmits, event, statuses, existing, todo, writes, serr>>
    /\ UNCHANGED <<sfirst, abortVars>>

\* the event qualifies: every definition is evaluated
GateAccept ==
    /\ spc = "start"
    /\ Qualifies(event)
    /\ todo' = DOMAIN presubmits
    /\ spc' = "scan"
    /\ UNCHANGED <<presubmits, event, statuses, existing, writes, serr>>
    /\ UNCHANGED <<sfirst, abortVars>>

\* a required definition is never skipped
VisitRequired ==
    /\ spc = "scan"
    /\ \E c \in todo :
         /\ ~presubmits[c].optional
         /\ todo' = todo \ {c}
    /\ UNCHANGED <<presubmits, event, statuses, existing, spc, writes, serr>>
    /\ UNCHANGED <<sfirst, abortVars>>

\* an optional definition whose context is missing, or neither failure nor pending
VisitNotEligible ==
    /\ spc = "scan"
    /\ \E c \in todo :
         /\ presubmits[c].optional
         /\ ~Eligible(presubmits[c], statuses[c])
         /\ todo' = todo \ {c}
    /\ UNCHANGED <<presubmits, event, statuses, existing, spc, writes, serr>>
    /\ UNCHANGED <<sfirst, abortVars>>

\* an eligible definition the same comment re-triggers
VisitRetrigger ==
    /\ spc = "scan"
    /\ \E c \in todo :
         /\ Eligible(presubmits[c], statuses[c])
         /\ TriggerMatches(presubmits[c], c, event.body)
         /\ todo' = todo \ {c}
    /\ UNCHANGED <<presubmits, event, statuses, existing, spc, writes, serr>>
    /\ UNCHANGED <<sfirst, abortVars>>

\* the status update of an eligible definition, accepted by the host
WriteStatusOk ==
    /\ spc = "scan"
    /\ \E c \in todo :
         /\ Eligible(presubmits[c], statuses[c])
         /\ ~TriggerMatches(presubmits[c], c, event.body)
         /\ writes' = Append(writes, [sha |-> HeadSHA, context |-> c,
                                      status |-> SkippedStatus, ok |-> TRUE])
         /\ statuses' = [statuses EXCEPT ![c] = SkippedStatus]
         /\ todo' = todo \ {c}
    /\ UNCHANGED <<presubmits, event, existing, spc, serr>>
    /\ UNCHANGED <<sfirst, abortVars>>

\* the status update of an eligible definition, refused by the host: the
\* failure is kept for the aggregate error and the remaining writes go on
WriteStatusErr ==
    /\ spc = "scan"
    /\ \E c \in todo :
         /\ Eligible(presubmits[c], statuses[c])
         /\ ~TriggerMatches(presubmits[c], c, event.body)
         /\ writes' = Append(writes, [sha |-> HeadSHA, context |-> c,
                                      status |-> SkippedStatus, ok |-> FALSE])
         /\ todo' = todo \ {c}
    /\ serr' = HostWriteError
    /\ UNCHANGED <<presubmits, event, statuses, existing, spc>>
    /\ UNCHANGED <<sfirst, abortVars>>

\* every definition has been evaluated
HandleReturn ==
    /\ spc = "scan"
    /\ todo = {}
    /\ spc' = "done"
    /\ UNCHANGED <<presubmits, event, statuses, existing, todo, writes, serr>>
    /\ UNCHANGED <<sfirst, abortVars>>

AbortIdle ==
    /\ pjs = <<>>
    /\ input = <<>>
    /\ store = <<>>
    /\ dupes = EmptyDupes
    /\ i = 1
    /\ pc = "done"
    /\ cancelIndex = 0
    /\ toCancel = NoJob
    /\ err = NoError
    /\ calls = <<>>
    /\ first = NoCall

SkipInit == InitSkip /\ AbortIdle

SkipNext ==
    \/ GateReject
    \/ GateAccept
    \/ VisitRequired
    \/ VisitNotEligible
    \/ VisitRetrigger
    \/ WriteStatusOk
    \/ WriteStatusErr
    \/ HandleReturn

SkipSpec == SkipInit /\ [][SkipNext]_vars

\* ================================================= properties: Skip Resolver

WritesOf(c) == {n \in 1..Len(writes) : writes[n].context = c}

Returned == spc = "done"

\* The definition of context c is optional, its context was posted as failure
\* or pending, and the comment does not re-trigger it
ToBeSkipped(c) ==
    /\ presubmits[c].optional
    /\ existing[c].state \in {StatusFailure, StatusPending}
    /\ ~TriggerMatches(presubmits[c], c, event.body)

\* C9: no status write is issued for the context of a required definition,
\* whatever its posted state and whatever the comment body; the posted status
\* of a required context is what it was before the call.
C9_RequiredImmunity ==
    \A c \in ContextIds :
        ~presubmits[c].optional =>
            /\ statuses[c] = existing[c]
            /\ WritesOf(c) = {}

\* A qualifying /skip returned after skipping an optional context while a
\* required context was posted as failure or pending.
C9_Witness ==
    /\ Returned
    /\ Qualifies(event)
    /\ \E c, d \in ContextIds :
         /\ ~presubmits[c].optional
         /\ existing[c].state \in {StatusFailure, StatusPending}
         /\ presubmits[d].optional
         /\ statuses[d] = SkippedStatus

\* C10 as stated: after a qualifying /skip every optional definition posted as
\* failure or pending and not re-triggered has status success "Skipped", and
\* an optional definition never posted has no status.
C10_SkippedAfterCall ==
    (Returned /\ Qualifies(event)) =>
        \A c \in ContextIds :
            /\ ToBeSkipped(c) => statuses[c] = SkippedStatus
            /\ (presubmits[c].optional /\ existing[c] = Absent) =>
                   (statuses[c] = Absent /\ WritesOf(c) = {})

\* C10 amended: after a qualifying /skip exactly one status write, success
\* "Skipped" against the head commit, has been issued for every optional
\* definition posted as failure or pending and not re-triggered; its status is
\* success "Skipped" when the host accepted the write and as before when the
\* host refused it, and then the call returns an error. An optional definition
\* never posted has no status.
C10_SkippedWhenWritten ==
    (Returned /\ Qualifies(event)) =>
        \A c \in ContextIds :
            /\ ToBeSkipped(c) =>
                 /\ Cardinality(WritesOf(c)) = 1
                 /\ \A n \in WritesOf(c) :
                      /\ writes[n].sha = HeadSHA
                      /\ writes[n].status = SkippedStatus
                      /\ statuses[c] = (IF writes[n].ok THEN SkippedStatus ELSE existing[c])
                      /\ ~writes[n].ok => serr = HostWriteError
            /\ (presubmits[c].optional /\ existing[c] = Absent) =>
                   (statuses[c] = Absent /\ WritesOf(c) = {})

\* A qualifying /skip returned nil with one optional context taken from
\* failure and another from pending to success "Skipped".
C10_Witness ==
    /\ Returned
    /\ Qualifies(event)
    /\ serr = NoError
    /\ \E c, d \in ContextIds :
         /\ ToBeSkipped(c) /\ existing[c].state = StatusFailure
         /\ ToBeSkipped(d) /\ existing[d].state = StatusPending
         /\ statuses[c] = SkippedStatus
         /\ statuses[d] = SkippedStatus

\* The comment asks for a re-run of the job of context c: the definition has a
\* trigger and some line of the body is a /test command naming the job
Retriggered(c) ==
    /\ presubmits[c].hasTrigger
    /\ \E l \in {event.body[k] : k \in 1..Len(event.body)} :
         /\ l[1] = "/test"
         /\ c \in {l[k] : k \in 2..Len(l)}

HandleAgain ==
    /\ spc = "done"
    /\ sfirst = NoHandle
    /\ sfirst' = [statuses |-> statuses, writes |-> writes, serr |-> serr]
    /\ spc' = "start"
    /\ todo' = {}
    /\ serr' = NoError
    /\ UNCHANGED <<presubmits, event, statuses, existing, writes>>
    /\ UNCHANGED abortVars

SkipTwiceNext ==
    \/ GateReject
    \/ GateAccept
    \/ VisitRequired
    \/ VisitNotEligible
    \/ VisitRetrigger
    \/ WriteStatusOk
    \/ WriteStatusErr
    \/ HandleReturn
    \/ HandleAgain

SkipTwiceSpec == SkipInit /\ [][SkipTwiceNext]_vars

\* C12: an optional context in state success is never written; a second call
\* with the same event writes no context that the first call left in state
\* success, and after a first call that returned nil it makes no status write
\* at all and leaves the posted statuses as they were.
C12_IdempotentSkip ==
    /\ \A c \in ContextIds :
         (presubmits[c].optional /\ existing[c].state = StatusSuccess) =>
             (WritesOf(c) = {} /\ statuses[c] = existing[c])
    /\ sfirst # NoHandle =>
         \A c \in ContextIds :
             (presubmits[c].optional /\ sfirst.statuses[c].state = StatusSuccess) =>
                 /\ \A n \in WritesOf(c) : n <= Len(sfirst.writes)
                 /\ statuses[c] = sfirst.statuses[c]
    /\ (sfirst # NoHandle /\ sfirst.serr = NoError) =>
         (writes = sfirst.writes /\ statuses = sfirst.statuses)

\* The second call returned after a first call that returned nil, skipped one
\* optional context and found another already green.
C12_Witness ==
    /\ Returned
    /\ Qualifies(event)
    /\ sfirst # NoHandle
    /\ sfirst.serr = NoError
    /\ Len(sfirst.writes) >= 1
    /\ \E c, d \in ContextIds :
         /\ presubmits[c].optional /\ existing[c].state = StatusSuccess
         /\ presubmits[d].optional /\ sfirst.statuses[d] = SkippedStatus
         /\ existing[d].state = StatusFailure

====
